---- MODULE Spec2Model ----
(***************************************************************************)
(* Model of rtty's remote command execution engine (command.c): request    *)
(* entry (run_command), admission (add_task), process spawn (run_task),    *)
(* the libev callbacks (ev_child_exit, ev_timer_cb, ev_io_stdout_cb,       *)
(* ev_io_stderr_cb), teardown (task_free) and the two reply builders.      *)
(*                                                                         *)
(* The parent process's memory is the record State; every C function is an *)
(* operator from a State to a State, so a handler that calls another one   *)
(* (ev_child_exit -> cmd_reply, task_free, run_task) is one action.        *)
(* Each request gets the next index 1..MaxReq; the task allocated for      *)
(* request r is task[r], its child process is proc[r].                     *)
(*                                                                         *)
(* Tokens, paths and replies are the character strings the code handles;   *)
(* descriptors are the numbers the kernel hands out.  A write outside a    *)
(* live heap block damages the heap: from then on the parent may die in    *)
(* any call into the allocator, in the middle of a handler or in libev     *)
(* while it queues an event for one, which ends the behaviour, or go on    *)
(* with what the write left behind.  A child forked from a parent with a   *)
(* damaged heap inherits the damage.                                       *)
(***************************************************************************)
EXTENDS Integers, Sequences, FiniteSets, TLC

VARIABLES
    nrunning,      \* static int nrunning
    task_pending,  \* static LIST_HEAD(task_pending): sequence of task indices
    task,          \* the struct task allocated for each request
    msg,           \* the request payload (json_value *msg) of each request
    sent,          \* the texts ws->send() was called with, per request
    proc,          \* the child process forked for each task
    pipes,         \* the two pipes of each task: descriptors and bytes in flight
    corrupt,       \* the heap holds a write outside a live block
    crashed,       \* the parent process died in the allocator, of a damaged heap
    wrote,         \* history: every byte each child wrote to stdout / stderr
    started,       \* history: tasks in the order run_task was invoked for them
    queued,        \* history: tasks in the order list_add_tail queued them
    fate,          \* history: how each task ended (exited, timedout, failed)
    overflow,      \* history: requests for which bytes past the end of a block were accessed
    nreq,          \* number of requests handed to run_command so far
    nfaults,       \* number of failed system/library calls so far
    nwrites,       \* number of write() calls made by children so far
    uaf,           \* history: tasks whose memory was accessed after free()
    last           \* run_command's input, while it is the handler that ran last

vars == <<nrunning, task_pending, task, msg, sent, proc, pipes, corrupt,
          crashed, wrote, started, queued, fate, overflow, nreq, nfaults, nwrites, uaf,
          last>>

----------------------------------------------------------------------------
(* Bounds of the model *)

\* requests handed to run_command in one behaviour
MaxReq == 3

\* failing calls (calloc, pipe2, fork, execv) in one behaviour
MaxFaults == 1

\* write() calls of all children in one behaviour
MaxWrites == 1

\* command.h: the configured maximum of concurrently running tasks
RTTY_CMD_MAX_RUNNING == 1

\* command.h: the execution timeout, in ticks of the clock
RTTY_CMD_EXEC_TIMEOUT == 2

\* ticks the clock is followed for after a task started
MaxAge == 3

\* requests in one behaviour in which the clock is followed
MaxTimedReq == 2

\* limits.h: sizeof(path) in cmd_lookup
PATH_MAX == 4096

\* sizeof(str) in cmd_err_reply
ERR_STR_SIZE == 256

\* what cmd_reply adds to 4/3 of the output for the text around it
REPLY_OVERHEAD == 200

\* command.h: sizeof(t->token) in struct task, whose last member is cmd[]
TOKEN_SIZE == 33

Req == 1 .. MaxReq

----------------------------------------------------------------------------
(* Values *)

\* a C NULL string pointer
NULL == "NULL"

\* F(e), with e computed once however often F uses its argument
With(e, F(_)) == CHOOSE r \in {F(x) : x \in {e}} : TRUE

\* the string of n copies of the character c
RECURSIVE Repeat(_, _)
Repeat(c, n0) ==
    With(n0, LAMBDA n :
        IF n = 0 THEN ""
        ELSE IF n % 2 = 0
             THEN With(Repeat(c, n \div 2), LAMBDA h : h \o h)
             ELSE c \o Repeat(c, n - 1))

\* the fd of an ev_io that was never initialised (the task is calloc'ed)
NoFd == 0

\* the value of opipe[] / epipe[] before pipe2() filled it in
Unset == -1

\* a token longer than any buffer the code puts it in
LongToken == "tok" \o Repeat("L", 237)

Tokens == {"tokA", LongToken}

\* the byte a child may write: 'h'
Bytes == {104}

\* what the allocator writes to descriptor 2 before it aborts the process:
\* "malloc(): invalid size (unsorted)" and a newline
AbortMessage ==
    <<109, 97, 108, 108, 111, 99, 40, 41, 58, 32,
      105, 110, 118, 97, 108, 105, 100, 32,
      115, 105, 122, 101, 32,
      40, 117, 110, 115, 111, 114, 116, 101, 100, 41, 10>>

\* what a command that ran passes to exit()
ExitCodes == {0}

\* signal.h: the signal abort() raises
SIGABRT == 6

\* the wait status of a process that called exit(code)
Exited(code) == code * 256

\* the wait status of a process a signal killed
Signaled(sig) == sig

\* sys/wait.h
WEXITSTATUS(status) == (status \div 256) % 256

\* /etc/shadow: user name -> password whose crypt() is stored
Shadow == [root |-> "pw"]

\* cmd_lookup's NULL
NoPath == NULL

\* the regular files of the file system
RegularFiles == {"/bin/echo"}

\* whether PATH is set in the environment, and its value split at ':'
PathIsSet == TRUE

SearchPath == <<"/sbin", "/bin">>

\* "/bin:/usr/bin:/sbin:/usr/sbin", split at ':'
DefaultSearchPath == <<"/bin", "/usr/bin", "/sbin", "/usr/sbin">>

\* the descriptors 0..2 of the parent: run_task hands them on to the child
\* by dup2() onto 1 and 2, and nothing in command.c closes them
stdio == {0, 1, 2}

\* descriptors the parent holds for its own use (socket, event loop, log)
OtherFds == {3, 4, 5}

\* the descriptor numbers in use during a behaviour: 0..2, the parent's own
\* and at most four per request
Fds == 0 .. (2 + Cardinality(OtherFds) + 4 * MaxReq)

PipeEnds == {"o0", "o1", "e0", "e1"}

\* the "attrs" objects of the requests the model submits
Attrs ==
    { [username |-> "root",  password |-> "pw",  cmd |-> "echo"],
      [username |-> "root",  password |-> "pw",  cmd |-> "/bin/echo"],
      [username |-> "root",  password |-> "pw",  cmd |-> "nosuch"],
      [username |-> NULL,    password |-> "pw",  cmd |-> "echo"],
      [username |-> "",      password |-> "pw",  cmd |-> "echo"],
      [username |-> "root",  password |-> "bad", cmd |-> "echo"],
      [username |-> "root",  password |-> NULL,  cmd |-> "echo"],
      [username |-> "ghost", password |-> "pw",  cmd |-> "echo"] }

NoAttrs == [username |-> NULL, password |-> NULL, cmd |-> NoPath]

\* a payload that was never handed in
NoMsg == [token |-> NULL, freed |-> 0]

\* a struct task right after calloc(), and the value kept for one not allocated;
\* ioo_on/ioe_on/cw_on/timer_on: the watcher is registered with the loop;
\* timer_pending: the loop has queued an event for the timer and not yet
\* called ev_timer_cb for it; timer_at: ticks left until the timer expires
\* (ev_timer's at, taken relative to the loop's clock); age: history, ticks
\* since run_task started the task
NoTask ==
    [st |-> "none", token |-> NULL, cmd |-> NoPath, msg |-> 0,
     ioo_fd |-> NoFd, ioe_fd |-> NoFd, ioo_on |-> FALSE, ioe_on |-> FALSE,
     cw_on |-> FALSE, timer_on |-> FALSE, timer_pending |-> FALSE,
     timer_at |-> 0, timer_repeat |-> 0,
     age |-> 0, ob |-> <<>>, eb |-> <<>>]

\* a child process: st is its stage, status its wait status; cmd is the t->cmd
\* it hands to execv(); out and err are what its descriptors 1 and 2 refer to
\* after the redirection ("o1", "e1": the write end of the task's stdout /
\* stderr pipe; "other": something else; "closed"); nrunning0 is the value of
\* nrunning it inherited at fork(), nrunning the value in its own memory now;
\* watchers: it ran the ev_*_start calls of run_task; inloop: its run_task
\* returned to the event loop; corrupt: the heap it got at fork() is damaged
NoProc == [st |-> "none", status |-> 0, cmd |-> NoPath,
           out |-> "closed", err |-> "closed",
           nrunning0 |-> 0, nrunning |-> 0,
           watchers |-> FALSE, inloop |-> FALSE, corrupt |-> FALSE]

Alive == {"forked", "exec", "escaped"}

\* a task's pipes: the ends open in the parent (o0/e0 read ends, o1/e1 write
\* ends) and the descriptor number of each, the bytes written and not yet
\* read, and whether a read() of the parent returned 0 (end of file)
NoPipes == [open |-> {}, fd |-> [x \in PipeEnds |-> Unset],
            o |-> <<>>, e |-> <<>>, oeof |-> FALSE, eeof |-> FALSE]

\* the memory of a struct task after free()
FreedTask == [NoTask EXCEPT !.st = "freed"]

\* what the environment answers to the calls a handler makes:
\* mem: calloc() returns memory; sys: which of pipe2/pipe2/fork fails, if any
Envs == [mem : BOOLEAN, sys : {"ok", "pipe1", "pipe2", "fork"}]

\* the answers with at most n failing calls among them
EnvsWithin(n) ==
    {env \in Envs :
        (IF env.mem THEN 0 ELSE 1) + (IF env.sys = "ok" THEN 0 ELSE 1) <= n}

----------------------------------------------------------------------------
(* The parent's state as one value *)

\* deaths: the states in which the handler under way may have died
State ==
    [nrunning |-> nrunning, task_pending |-> task_pending, task |-> task,
     msg |-> msg, sent |-> sent, proc |-> proc, pipes |-> pipes,
     corrupt |-> corrupt, crashed |-> crashed, started |-> started, queued |-> queued,
     fate |-> fate, overflow |-> overflow, nfaults |-> nfaults, uaf |-> uaf,
     deaths |-> {}]

Commit(S) ==
    /\ nrunning' = S.nrunning
    /\ task_pending' = S.task_pending
    /\ task' = S.task
    /\ msg' = S.msg
    /\ sent' = S.sent
    /\ proc' = S.proc
    /\ pipes' = S.pipes
    /\ corrupt' = S.corrupt
    /\ crashed' = S.crashed
    /\ started' = S.started
    /\ queued' = S.queued
    /\ fate' = S.fate
    /\ overflow' = S.overflow
    /\ nfaults' = S.nfaults
    /\ uaf' = S.uaf

\* a call into the allocator (calloc, realloc, free). On a damaged heap the
\* process may die in it, of the allocator's integrity checks or of the
\* damage itself: the state the handler has reached is then the last one.
heap_check(S0) ==
    With(S0, LAMBDA S :
        IF S.corrupt
        THEN [S EXCEPT !.deaths =
                  @ \cup {[S EXCEPT !.crashed = TRUE, !.deaths = {}]}]
        ELSE S)

\* libev queues an event for a watcher (ev_feed_event, and feed_reverse for
\* a timer): the loop's array of pending events is given room, a call into
\* the allocator
ev_feed_event(S) == heap_check(S)

\* the states a handler may leave behind: the one it ends in, and those it
\* may have died in
Outcomes(S) == {[S EXCEPT !.deaths = {}]} \cup S.deaths

----------------------------------------------------------------------------
(* Credential check and command resolution *)

\* crypt(3): the hash of a password; distinct passwords hash differently
crypt(password) == <<"crypt", password>>

\* getspnam(3): sp_pwdp of the user's shadow entry
sp_pwdp(username) == crypt(Shadow[username])

\* what login_test returns, when it returns
login_test(username, password) ==
    IF username = NULL \/ username = "" THEN FALSE
    ELSE IF username \notin DOMAIN Shadow THEN FALSE
    ELSE LET pw == IF password = NULL THEN "" ELSE password
         IN  crypt(pw) = sp_pwdp(username)

\* the call of getspnam() in login_test: it opens /etc/shadow through
\* stdio, which allocates
getspnam(S) == heap_check(S)

\* stat(path) succeeds and S_ISREG
IsRegularFile(path) == path \in RegularFiles

\* the text of elements s..i of a search path, with the ':' between them
RECURSIVE PathText(_, _, _)
PathText(dirs, s, i) ==
    IF s = i THEN dirs[s] ELSE PathText(dirs, s, i - 1) \o ":" \o dirs[i]

\* the do/while of cmd_lookup with p at the end of element i and search at
\* the start of element s. An element too long for path[] takes continue,
\* which skips search = p + 1: search then stays where it is.
RECURSIVE path_search(_, _, _, _)
path_search(dirs, s, i, cmd) ==
    LET plen == Len(PathText(dirs, s, i))
        clen == Len(cmd) + 1
        path == PathText(dirs, s, i) \o "/" \o cmd
    IN  IF plen + clen >= PATH_MAX
        THEN IF i = Len(dirs) THEN NoPath ELSE path_search(dirs, s, i + 1, cmd)
        ELSE IF IsRegularFile(path) THEN path
        ELSE IF i = Len(dirs) THEN NoPath
        ELSE path_search(dirs, i + 1, i + 1, cmd)

cmd_lookup(cmd) ==
    IF IsRegularFile(cmd) THEN cmd
    ELSE path_search(IF PathIsSet THEN SearchPath ELSE DefaultSearchPath,
                     1, 1, cmd)

cmderr2str(err) ==
    CASE err = "PERMIT"      -> "operation not permitted"
      [] err = "NOT_FOUND"   -> "not found"
      [] err = "NOMEM"       -> "no mem"
      [] err = "SYSERR"      -> "sys error"
      [] err = "RESP_TOOBIG" -> "stdout+stderr is too big"
      [] OTHER               -> ""

----------------------------------------------------------------------------
(* Reply encoding *)

\* command.h: the numbers of the error codes
ErrNo(err) ==
    CASE err = "PERMIT"      -> 1
      [] err = "NOT_FOUND"   -> 2
      [] err = "NOMEM"       -> 3
      [] err = "SYSERR"      -> 4
      [] err = "RESP_TOOBIG" -> 5

B64Chars == "ABCDEFGHIJKLMNOPQRSTUVWXYZabcdefghijklmnopqrstuvwxyz0123456789+/"

\* the base64 digit of a value 0..63
B64Digit(v) == SubSeq(B64Chars, v + 1, v + 1)

\* the '=' padding character
B64Pad == "="

\* the base64 text of a byte sequence
RECURSIVE B64Text(_)
B64Text(src0) ==
    With(src0, LAMBDA src :
        IF Len(src) = 0 THEN ""
        ELSE IF Len(src) = 1 THEN
            B64Digit(src[1] \div 4) \o B64Digit((src[1] % 4) * 16)
                \o B64Pad \o B64Pad
        ELSE IF Len(src) = 2 THEN
            B64Digit(src[1] \div 4)
                \o B64Digit((src[1] % 4) * 16 + (src[2] \div 16))
                \o B64Digit((src[2] % 16) * 4) \o B64Pad
        ELSE
            B64Digit(src[1] \div 4)
                \o B64Digit((src[1] % 4) * 16 + (src[2] \div 16))
                \o B64Digit((src[2] % 16) * 4 + (src[3] \div 64))
                \o B64Digit(src[3] % 64)
                \o B64Text(SubSeq(src, 4, Len(src))))

\* snprintf(buf, size, ...) of a text into an empty buffer: at most size - 1
\* characters are stored
snprintf(size, text) ==
    IF Len(text) < size THEN text ELSE SubSeq(text, 1, size - 1)

\* the format of cmd_err_reply, filled in
ErrDoc(token, err) ==
    "{\"type\":\"cmd\",\"token\":\"" \o token \o "\",\"attrs\":{\"err\":"
        \o ToString(ErrNo(err)) \o ",\"msg\":\"" \o cmderr2str(err) \o "\"}}"

\* the first format of cmd_reply, filled in
OkHead(token, code) ==
    "{\"type\":\"cmd\",\"token\":\"" \o token \o "\",\"attrs\":{\"code\":"
        \o ToString(code) \o ",\"stdout\":\""

\* the second and the third format of cmd_reply
OkMid == "\",\"stderr\":\""

OkTail == "\"}}"

\* the pieces cmd_reply writes one after the other
OkDoc(token, code, ob, eb) ==
    OkHead(token, code) \o B64Text(ob) \o OkMid \o B64Text(eb) \o OkTail

\* ws->send() of an error reply for request r
cmd_err_reply(S, r, token, err) ==
    [S EXCEPT !.sent[r] =
        Append(@, snprintf(ERR_STR_SIZE - 1, ErrDoc(token, err)))]

\* len = ceil(len * 4.0 / 3) + 200, for len bytes of output
ReplySize(len) == (4 * len + 2) \div 3 + REPLY_OVERHEAD

----------------------------------------------------------------------------
(* The reply buffer of cmd_reply, byte by byte *)

\* in a text that is sent: a NUL byte, and a byte of the heap outside the
\* block that the reply did not write (one character each, so that the
\* length of the text is the number of bytes sent)
NulByte == "~"

HeapByte == "?"

Max(a, b) == IF a > b THEN a ELSE b

Min(a, b) == IF a < b THEN a ELSE b

\* the memory from str on, as far as n bytes: img is what has been written,
\* the rest of the block of size bytes is zero (calloc), what lies behind the
\* block is the heap's
Padded(img, size, n) ==
    IF Len(img) >= n THEN img
    ELSE img \o Repeat(NulByte, Max(0, Min(n, size) - Len(img)))
             \o Repeat(HeapByte, Max(0, n - Max(Len(img), size)))

\* the memory after text was stored at offset at
Stored(img, size, at, text) ==
    With(Padded(img, size, at + Len(text)), LAMBDA p :
        SubSeq(p, 1, at) \o text \o SubSeq(p, at + Len(text) + 1, Len(p)))

\* a size_t is kept as the integer nearest 0 that is congruent to it modulo
\* its range: a negative one is a len that wrapped around, which no text
\* exceeds
Wrapped(len) == len < 0

\* cmd_reply's cursor: img the memory from str on, pos the offset of pos, len
\* the room it takes to be left, past whether it stored a byte outside the
\* block of size bytes
Cursor(size) == [img |-> "", pos |-> 0, len |-> size, past |-> FALSE]

\* the three statements of a piece: what was stored at pos, and the value
\* ret that len -= ret and pos += ret are done with
Advance(W0, size, stored0, ret) ==
    With(W0, LAMBDA W :
    With(stored0, LAMBDA stored :
        [img  |-> IF stored = "" THEN W.img
                  ELSE Stored(W.img, size, W.pos, stored),
         pos  |-> W.pos + ret,
         len  |-> W.len - ret,
         past |-> W.past \/ (stored # "" /\ W.pos + Len(stored) > size)]))

\* ret = snprintf(pos, len, text): nothing is stored for len = 0, else what
\* fits in len - 1 characters and a NUL; ret is the length of the whole text
put_snprintf(W0, size, text0) ==
    With(W0, LAMBDA W :
    With(text0, LAMBDA text :
        Advance(W, size,
                IF W.len = 0 THEN ""
                ELSE IF Wrapped(W.len) \/ Len(text) < W.len
                     THEN text \o NulByte
                     ELSE SubSeq(text, 1, W.len - 1) \o NulByte,
                Len(text))))

\* ret = b64_encode(src, srclen, pos, len): each group of four characters is
\* stored if len has room for it; the result is -1 when a group has none or
\* when none is left for the NUL, else the NUL is stored and the result is
\* the length of the text
b64_encode(W0, size, src) ==
    With(W0, LAMBDA W :
    With(B64Text(src), LAMBDA text :
        IF Wrapped(W.len) \/ Len(text) < W.len
        THEN Advance(W, size, text \o NulByte, Len(text))
        ELSE Advance(W, size,
                     SubSeq(text, 1, 4 * Min(Len(text) \div 4, W.len \div 4)),
                     -1)))

\* cmd_reply when calloc() succeeded: the five pieces, then ws->send() of the
\* pos - str bytes from str on. A piece longer than the room left makes len
\* wrap around, and the pieces after it are stored where pos points, past the
\* end of the block.
cmd_reply_text(S, t, code) ==
    With(S.task[t], LAMBDA T :
    With(ReplySize(Len(T.ob) + Len(T.eb)), LAMBDA size :
         With(put_snprintf(
                b64_encode(
                    put_snprintf(
                        b64_encode(
                            put_snprintf(Cursor(size), size,
                                         OkHead(T.token, code)),
                            size, T.ob),
                        size, OkMid),
                    size, T.eb),
                size, OkTail),
             LAMBDA W :
                [S EXCEPT
                    !.sent[t] = Append(@, SubSeq(Padded(W.img, size, W.pos),
                                                 1, W.pos)),
                    !.overflow = IF W.past \/ W.pos > size
                                 THEN @ \cup {t} ELSE @,
                    !.corrupt = @ \/ W.past])))

\* env.mem: whether calloc() returns memory; free(str) ends it
cmd_reply(S0, t, code, env) ==
    With(heap_check(S0), LAMBDA S :
        IF ~env.mem
        THEN cmd_err_reply([S EXCEPT !.nfaults = @ + 1], t,
                           S.task[t].token, "NOMEM")
        ELSE heap_check(cmd_reply_text(S, t, code)))

----------------------------------------------------------------------------
(* Descriptors *)

\* the descriptor numbers open in the parent, whose pipe ends are ps
UsedFds(ps) ==
    stdio \cup OtherFds
        \cup UNION {{ps[u].fd[x] : x \in ps[u].open} : u \in Req}

\* the number the kernel gives a new descriptor: the lowest one not in use
LowestFree(used) ==
    CHOOSE n \in Fds : n \notin used /\ \A m \in Fds : m < n => m \in used

\* the pipe ends of the parent after pipe2() made a pipe for task t, with
\* read end r and write end w
PipeOpened(ps, t, r, w) ==
    [ps EXCEPT ![t].open = @ \cup {r, w},
               ![t].fd[r] = LowestFree(UsedFds(ps)),
               ![t].fd[w] = LowestFree(UsedFds(ps)
                                \cup {LowestFree(UsedFds(ps))})]

pipe2(S, t, r, w) == [S EXCEPT !.pipes = PipeOpened(@, t, r, w)]

\* the pipe ends P of one task after close(n) in the parent; the bytes of a
\* pipe whose read end goes are lost
PipeClosed(P, n) ==
    [P EXCEPT !.open = {x \in @ : P.fd[x] # n},
              !.o = IF "o0" \in P.open /\ P.fd["o0"] = n THEN <<>> ELSE @,
              !.e = IF "e0" \in P.open /\ P.fd["e0"] = n THEN <<>> ELSE @,
              !.oeof = IF "o0" \in P.open /\ P.fd["o0"] = n THEN FALSE ELSE @,
              !.eeof = IF "e0" \in P.open /\ P.fd["e0"] = n THEN FALSE ELSE @]

\* close(n) in the parent
close(S, n) == [S EXCEPT !.pipes = [u \in Req |-> PipeClosed(@[u], n)]]

\* the descriptor table the child of task t gets from fork(): number -> the
\* end of t's pipes it refers to, "other" or "closed"
FdTable(ps, t) ==
    [n \in Fds |->
        IF \E x \in ps[t].open : ps[t].fd[x] = n
        THEN CHOOSE x \in ps[t].open : ps[t].fd[x] = n
        ELSE IF n \in UsedFds(ps) THEN "other" ELSE "closed"]

\* close(n) in a child
child_close(tab, n) == [tab EXCEPT ![n] = "closed"]

\* dup2(old, new) in a child: fails on a closed old, does nothing when the
\* two numbers are the same
child_dup2(tab, old, new) ==
    IF tab[old] = "closed" \/ old = new THEN tab
    ELSE [tab EXCEPT ![new] = tab[old]]

\* the child branch of run_task up to the second close of a write end
child_redirect(tab, opipe0, opipe1, epipe0, epipe1) ==
    LET t1 == child_close(tab, opipe0)
        t2 == child_close(t1, epipe0)
        t3 == child_dup2(t2, opipe1, 1)
        t4 == child_dup2(t3, epipe1, 2)
        t5 == child_close(t4, opipe1)
    IN  child_close(t5, epipe1)

----------------------------------------------------------------------------
(* Teardown, spawn, admission and entry point *)

\* json_value_free(msg): the payload's blocks go back to the allocator
json_value_free(S, m) == [heap_check(S) EXCEPT !.msg[m].freed = @ + 1]

\* buffer_free(&t->ob) and buffer_free(&t->eb): a buffer that holds data
\* has a block to give back
buffer_free(S0, t) ==
    With(S0, LAMBDA S :
    With(IF S.task[t].ob = <<>> THEN S
         ELSE [heap_check(S) EXCEPT !.task[t].ob = <<>>], LAMBDA S1 :
         IF S1.task[t].eb = <<>> THEN S1
         ELSE [heap_check(S1) EXCEPT !.task[t].eb = <<>>]))

\* free(t): what is left of the struct is what the allocator keeps there; a
\* watcher that was not stopped stays registered with the loop
free(S0, t) ==
    With(heap_check(S0), LAMBDA S :
        [S EXCEPT !.task[t] = [FreedTask EXCEPT
                                  !.ioo_on = S.task[t].ioo_on,
                                  !.ioe_on = S.task[t].ioe_on,
                                  !.cw_on = S.task[t].cw_on,
                                  !.timer_on = S.task[t].timer_on,
                                  !.timer_pending = S.task[t].timer_pending]])

\* a teardown that leaves the timer armed
task_free_keep_timer(S0, t) ==
    With(S0, LAMBDA S :
    With(IF S.task[t].ioo_fd > 0
         THEN [close(S, S.task[t].ioo_fd) EXCEPT !.task[t].ioo_on = FALSE]
         ELSE S, LAMBDA S1 :
    With(IF S1.task[t].ioe_fd > 0
         THEN [close(S1, S1.task[t].ioe_fd) EXCEPT !.task[t].ioe_on = FALSE]
         ELSE S1, LAMBDA S2 :
    With(buffer_free([S2 EXCEPT !.task[t].cw_on = FALSE], t), LAMBDA S3 :
        free(json_value_free(S3, S3.task[t].msg), t)))))

\* close and ev_io_stop only for an fd > 0; ev_child_stop and ev_timer_stop
\* always (stopping a watcher also drops an event queued for it); then the
\* buffers, the payload and the struct are released
task_free(S0, t) ==
    With(S0, LAMBDA S :
    With(IF S.task[t].ioo_fd > 0
         THEN [close(S, S.task[t].ioo_fd) EXCEPT !.task[t].ioo_on = FALSE]
         ELSE S, LAMBDA S1 :
    With(IF S1.task[t].ioe_fd > 0
         THEN [close(S1, S1.task[t].ioe_fd) EXCEPT !.task[t].ioe_on = FALSE]
         ELSE S1, LAMBDA S2 :
    With(buffer_free([S2 EXCEPT !.task[t].cw_on = FALSE,
                                !.task[t].timer_on = FALSE,
                                !.task[t].timer_pending = FALSE], t),
         LAMBDA S3 :
        free(json_value_free(S3, S3.task[t].msg), t)))))

\* the ERR: label of run_task
run_task_err(S, t, err) ==
    [task_free(cmd_err_reply(S, t, S.task[t].token, err), t)
        EXCEPT !.fate[t] = "failed"]

\* fork() succeeded. The child is taken from fork() to its execv() in one
\* piece: proc[t] holds what its descriptors 1 and 2 are after the
\* redirection, and whether the heap it inherits is damaged.
fork(S0, t) ==
    With(S0, LAMBDA S :
        LET P   == S.pipes[t].fd
            tab == child_redirect(FdTable(S.pipes, t),
                                  P["o0"], P["o1"], P["e0"], P["e1"])
        IN  [S EXCEPT !.proc[t] = [NoProc EXCEPT !.st = "forked",
                                                 !.cmd = S.task[t].cmd,
                                                 !.out = tab[1],
                                                 !.err = tab[2],
                                                 !.nrunning0 = S.nrunning,
                                                 !.nrunning = S.nrunning,
                                                 !.corrupt = S.corrupt]])

\* ev_io_init and ev_io_start of the stdout watcher on descriptor fd:
\* ev_io_start marks the watcher active and then makes room for the
\* descriptor in the loop's tables
ev_io_start_ioo(S, t, fd) ==
    heap_check([S EXCEPT !.task[t].ioo_fd = fd, !.task[t].ioo_on = TRUE])

ev_io_start_ioe(S, t, fd) ==
    heap_check([S EXCEPT !.task[t].ioe_fd = fd, !.task[t].ioe_on = TRUE])

\* ev_timer_init(&t->timer, ev_timer_cb, RTTY_CMD_EXEC_TIMEOUT, 0) and
\* ev_timer_start, which marks the timer active and then makes room for it
\* in the loop's heap of timers
ev_timer_start(S, t) ==
    heap_check([S EXCEPT !.task[t].timer_on = TRUE,
                         !.task[t].timer_pending = FALSE,
                         !.task[t].timer_at = RTTY_CMD_EXEC_TIMEOUT,
                         !.task[t].timer_repeat = 0])

\* the default: branch of run_task
run_task_parent(S0, t) ==
    With(S0, LAMBDA S :
        LET P  == S.pipes[t].fd
            S1 == [close(close(S, P["o1"]), P["e1"])
                      EXCEPT !.task[t].cw_on = TRUE]
            S2 == ev_timer_start(
                      ev_io_start_ioe(
                          ev_io_start_ioo(S1, t, P["o0"]), t, P["e0"]), t)
        IN  [S2 EXCEPT !.task[t].st = "running", !.nrunning = @ + 1])

\* env.sys: which of the two pipe2() calls and fork() fails, if any
run_task(S, t, env) ==
    With([S EXCEPT !.started = Append(@, t)], LAMBDA S0 :
    With(pipe2(S0, t, "o0", "o1"), LAMBDA S1 :
    With(pipe2(S1, t, "e0", "e1"), LAMBDA S2 :
        CASE env.sys = "pipe1" ->
                run_task_err([S0 EXCEPT !.nfaults = @ + 1], t, "SYSERR")
          [] env.sys = "pipe2" ->
                run_task_err([S1 EXCEPT !.nfaults = @ + 1], t, "SYSERR")
          [] env.sys = "fork" ->
                run_task_err([S2 EXCEPT !.nfaults = @ + 1], t, "SYSERR")
          [] OTHER ->
                run_task_parent(fork(S2, t), t))))

\* list_add() where list_add_tail() is meant: the task goes to the head
list_add_head(t, list) == <<t>> \o list

list_add_tail(t, list) == Append(list, t)

list_first_entry(list) == Head(list)

list_del(t, list) == SelectSeq(list, LAMBDA x : x # t)

\* the admission test written with <= for <
can_run_off_by_one(n) == n <= RTTY_CMD_MAX_RUNNING

\* the admission test of add_task
can_run(n) == n < RTTY_CMD_MAX_RUNNING

\* the block holds the struct, which ends with token[TOKEN_SIZE], and then
\* strlen(cmd) + 1 bytes for cmd[]. strcpy(t->token, token) comes after
\* strcpy(t->cmd, cmd): what does not fit in token[] lands in cmd[], and
\* what does not fit there either goes past the end of the block.
add_task(S0, r, token, cmd, env) ==
    With(heap_check(S0), LAMBDA S :
        IF ~env.mem
        THEN cmd_err_reply([S EXCEPT !.nfaults = @ + 1], r, token, "NOMEM")
        ELSE LET fits == Len(token) < TOKEN_SIZE
                 past == Len(token) + 1 > TOKEN_SIZE + Len(cmd) + 1
             IN  With([S EXCEPT
                          !.task[r] =
                            [NoTask EXCEPT
                               !.st = "new", !.msg = r, !.token = token,
                               !.cmd = IF fits THEN cmd
                                       ELSE SubSeq(token, TOKEN_SIZE + 1,
                                                   Len(token))],
                          !.overflow = IF past THEN @ \cup {r} ELSE @,
                          !.corrupt = @ \/ past], LAMBDA S1 :
                     IF can_run(S1.nrunning)
                     THEN run_task(S1, r, env)
                     ELSE [S1 EXCEPT !.task_pending = list_add_tail(r, @),
                                     !.task[r].st = "pending",
                                     !.queued = Append(@, r)]))

\* the ERR: label of run_command
run_command_err(S, r, token, err) ==
    json_value_free(cmd_err_reply(S, r, token, err), r)

\* login_test is called for a username that is there and not empty, and
\* looks the user up before anything else
run_command(S0, r, attrs, env) ==
    LET token == S0.msg[r].token
    IN  IF attrs.username = NULL \/ attrs.username = ""
        THEN run_command_err(S0, r, token, "PERMIT")
        ELSE With(getspnam(S0), LAMBDA S :
                IF ~login_test(attrs.username, attrs.password)
                THEN run_command_err(S, r, token, "PERMIT")
                ELSE LET cmd == cmd_lookup(attrs.cmd)
                     IN  IF cmd = NoPath
                         THEN run_command_err(S, r, token, "NOT_FOUND")
                         ELSE add_task(S, r, token, cmd, env))

----------------------------------------------------------------------------
(* libev callbacks *)

\* the task taken off the pending list is on no list and not running until
\* run_task has started it
ev_child_exit(S, t, rstatus, env) ==
    With(task_free(cmd_reply(S, t, WEXITSTATUS(rstatus), env), t), LAMBDA S2 :
    With([S2 EXCEPT !.nrunning = @ - 1, !.fate[t] = "exited"], LAMBDA S3 :
        IF S3.task_pending = <<>>
        THEN S3
        ELSE LET h == list_first_entry(S3.task_pending)
             IN  run_task([S3 EXCEPT !.task_pending = list_del(h, @),
                                     !.task[h].st = "new"],
                          h, env)))

\* uwsc_log_err("exec '%s' timeout\n", t->cmd): a read of t->cmd; the bytes
\* read go to the log only, which the model does not keep
uwsc_log_err(S0, t) ==
    With(S0, LAMBDA S :
        IF S.task[t].st = "freed" THEN [S EXCEPT !.uaf = @ \cup {t}] ELSE S)

\* a timer callback that answers the caller before the teardown
ev_timer_cb_reply(S, t) ==
    With(task_free(cmd_err_reply(S, t, S.task[t].token, "SYSERR"), t),
         LAMBDA S1 :
            uwsc_log_err([S1 EXCEPT !.nrunning = @ - 1,
                                    !.fate[t] = "timedout"], t))

\* a timer callback without nrunning--
ev_timer_cb_keep_count(S, t) ==
    With(task_free(S, t), LAMBDA S1 :
        uwsc_log_err([S1 EXCEPT !.fate[t] = "timedout"], t))

ev_timer_cb(S, t) ==
    With(task_free(S, t), LAMBDA S1 :
        uwsc_log_err([S1 EXCEPT !.nrunning = @ - 1,
                                !.fate[t] = "timedout"], t))

\* read() on the read end of the pipe whose write end is w returns 0 once the
\* pipe is empty: no process holds the write end. The parent closed its own
\* in run_task; the child holds it as its descriptor 1 or 2, if the
\* redirection left it there, for as long as it lives.
AtEof(S, t, w) ==
    /\ w \notin S.pipes[t].open
    /\ ~(S.proc[t].st \in Alive /\ w \in {S.proc[t].out, S.proc[t].err})

\* a stdout callback that also restarts the timer (an idle timeout)
ev_io_stdout_cb_rearm(S0, t) ==
    With(heap_check(S0), LAMBDA S :
        LET S1 == [S EXCEPT !.pipes[t].o = <<>>,
                            !.pipes[t].oeof = @ \/ AtEof(S, t, "o1")]
        IN  IF S.task[t].st = "freed"
            THEN [S1 EXCEPT !.uaf = @ \cup {t}, !.corrupt = TRUE]
            ELSE [S1 EXCEPT !.task[t].ob = @ \o S.pipes[t].o,
                            !.task[t].timer_at = RTTY_CMD_EXEC_TIMEOUT])

\* buffer_put_fd(&t->ob, fd, -1, &eof, ...): room is made in the buffer and
\* everything the pipe holds is read into it, up to end of file when every
\* write end is closed; eof is not looked at. For a task that was freed with
\* its watcher left registered, t->ob is memory of a freed block: the
\* buffer's fields are written there.
ev_io_stdout_cb(S0, t) ==
    With(heap_check(S0), LAMBDA S :
        LET S1 == [S EXCEPT !.pipes[t].o = <<>>,
                            !.pipes[t].oeof = @ \/ AtEof(S, t, "o1")]
        IN  IF S.task[t].st = "freed"
            THEN [S1 EXCEPT !.uaf = @ \cup {t}, !.corrupt = TRUE]
            ELSE [S1 EXCEPT !.task[t].ob = @ \o S.pipes[t].o])

ev_io_stderr_cb(S0, t) ==
    With(heap_check(S0), LAMBDA S :
        LET S1 == [S EXCEPT !.pipes[t].e = <<>>,
                            !.pipes[t].eeof = @ \/ AtEof(S, t, "e1")]
        IN  IF S.task[t].st = "freed"
            THEN [S1 EXCEPT !.uaf = @ \cup {t}, !.corrupt = TRUE]
            ELSE [S1 EXCEPT !.task[t].eb = @ \o S.pipes[t].e])
----------------------------------------------------------------------------
(* The state machine *)

\* the value of last after any handler but run_command
NoRequest == [op |-> "other", req |-> 0, attrs |-> NoAttrs]

Init ==
    /\ nrunning = 0
    /\ task_pending = <<>>
    /\ task = [r \in Req |-> NoTask]
    /\ msg = [r \in Req |-> NoMsg]
    /\ sent = [r \in Req |-> <<>>]
    /\ proc = [r \in Req |-> NoProc]
    /\ pipes = [r \in Req |-> NoPipes]
    /\ corrupt = FALSE
    /\ crashed = FALSE
    /\ wrote = [r \in Req |-> [o |-> <<>>, e |-> <<>>]]
    /\ started = <<>>
    /\ queued = <<>>
    /\ fate = [r \in Req |-> "none"]
    /\ overflow = {}
    /\ uaf = {}
    /\ nreq = 0
    /\ nfaults = 0
    /\ nwrites = 0
    /\ last = NoRequest

\* a handler of the parent that began in state B leaves one of the outcomes
\* of F(B) behind
Finish(B, F(_)) ==
    \E S0 \in {B} : \E S1 \in {F(S0)} : \E out \in Outcomes(S1) :
        out.nfaults <= MaxFaults /\ Commit(out)

\* a handler cannot run: the parent dies in libev, or in the library that
\* reads the control channel, while the event for it is taken in
LoopDeath ==
    /\ corrupt
    /\ crashed' = TRUE
    /\ last' = NoRequest
    /\ UNCHANGED <<nrunning, task_pending, task, msg, sent, proc, pipes,
                   corrupt, wrote, started, queued, fate, overflow, uaf, nreq,
                   nfaults, nwrites>>

\* the loop has queued the event of an expired timer and is calling the
\* callbacks of the events it holds: those of child watchers come before the
\* timer's, those of io watchers after it
InvokingPending == \E t \in Req : task[t].timer_pending

\* a request arrives on the control channel: run_command(ws, msg), unless
\* the parent dies of a damaged heap while the message is read and parsed
RunCommand ==
    /\ ~crashed
    /\ ~InvokingPending
    /\ nreq < MaxReq
    /\ \/ /\ \E token \in Tokens, attrs \in Attrs,
                env \in EnvsWithin(MaxFaults - nfaults) :
               LET r  == nreq + 1
                   S0 == [State EXCEPT
                             !.msg[r] = [token |-> token, freed |-> 0]]
               IN  /\ Finish(S0, LAMBDA S : run_command(S, r, attrs, env))
                   /\ nreq' = r
                   /\ last' = [op |-> "run_command", req |-> r,
                               attrs |-> attrs]
          /\ UNCHANGED <<wrote, nwrites>>
       \/ LoopDeath

\* the child of task t, after fork(): execv() replaces the process image
ChildExec(t) ==
    /\ ~crashed
    /\ proc[t].st = "forked"
    /\ IsRegularFile(proc[t].cmd)
    /\ proc' = [proc EXCEPT ![t].st = "exec"]
    /\ last' = NoRequest
    /\ UNCHANGED <<nrunning, task_pending, task, msg, sent, pipes,
                   corrupt, crashed, wrote, started, queued, fate, overflow, uaf, nreq,
                   nfaults, nwrites>>

\* the child of task t does not get past the calloc() of its argument
\* vector: calloc() returns NULL and the child calls exit(1), or the heap it
\* inherited is damaged and the allocator aborts it, after writing its
\* message to descriptor 2, which the redirection made the write end of the
\* task's stderr pipe; the message is lost when the read end is closed
ChildArgsFail(t) ==
    /\ ~crashed
    /\ proc[t].st = "forked"
    /\ \/ /\ nfaults < MaxFaults
          /\ proc' = [proc EXCEPT ![t].st = "zombie",
                                  ![t].status = Exited(1)]
          /\ nfaults' = nfaults + 1
          /\ UNCHANGED <<pipes, wrote>>
       \/ /\ proc[t].corrupt
          /\ proc' = [proc EXCEPT ![t].st = "zombie",
                                  ![t].status = Signaled(SIGABRT)]
          /\ nfaults' = nfaults
          /\ IF proc[t].err = "e1" /\ "e0" \in pipes[t].open
             THEN /\ pipes' = [pipes EXCEPT ![t].e = @ \o AbortMessage]
                  /\ wrote' = [wrote EXCEPT ![t].e = @ \o AbortMessage]
             ELSE UNCHANGED <<pipes, wrote>>
    /\ last' = NoRequest
    /\ UNCHANGED <<nrunning, task_pending, task, msg, sent,
                   corrupt, crashed, started, queued, fate, overflow, uaf, nreq,
                   nwrites>>

\* the child of task t: execv() returns, for want of a file to run or of
\* something else; case 0 has no exit and no break, so the child runs the
\* default: branch on its copy of the parent's memory
ChildExecFail(t) ==
    /\ ~crashed
    /\ proc[t].st = "forked"
    /\ IsRegularFile(proc[t].cmd) => nfaults < MaxFaults
    /\ proc' = [proc EXCEPT ![t].st = "escaped",
                            ![t].watchers = TRUE,
                            ![t].nrunning = @ + 1,
                            ![t].inloop = TRUE]
    /\ nfaults' = IF IsRegularFile(proc[t].cmd) THEN nfaults + 1 ELSE nfaults
    /\ last' = NoRequest
    /\ UNCHANGED <<nrunning, task_pending, task, msg, sent, pipes,
                   corrupt, crashed, wrote, started, queued, fate, overflow, uaf, nreq,
                   nwrites>>

\* the command of task t calls write() with one byte on its descriptor 1 or
\* 2: the byte goes into the pipe the descriptor refers to
ChildWrite(t) ==
    /\ ~crashed
    /\ proc[t].st = "exec"
    /\ nwrites < MaxWrites
    /\ \E b \in Bytes :
         \/ /\ proc[t].out = "o1"
            /\ "o0" \in pipes[t].open
            /\ pipes' = [pipes EXCEPT ![t].o = Append(@, b)]
            /\ wrote' = [wrote EXCEPT ![t].o = Append(@, b)]
         \/ /\ proc[t].err = "e1"
            /\ "e0" \in pipes[t].open
            /\ pipes' = [pipes EXCEPT ![t].e = Append(@, b)]
            /\ wrote' = [wrote EXCEPT ![t].e = Append(@, b)]
    /\ nwrites' = nwrites + 1
    /\ last' = NoRequest
    /\ UNCHANGED <<nrunning, task_pending, task, msg, sent, proc,
                   corrupt, crashed, started, queued, fate, overflow, uaf, nreq,
                   nfaults>>

\* the process of task t terminates: the command is done, or a child that
\* ran on in the parent's code comes to an end (of the damage in the heap it
\* inherited, too: the exit code the parent reads from that status is 0)
ChildExit(t) ==
    /\ ~crashed
    /\ proc[t].st \in {"exec", "escaped"}
    /\ \E code \in ExitCodes :
         proc' = [proc EXCEPT ![t].st = "zombie",
                              ![t].status = Exited(code)]
    /\ last' = NoRequest
    /\ UNCHANGED <<nrunning, task_pending, task, msg, sent, pipes,
                   corrupt, crashed, wrote, started, queued, fate, overflow, uaf, nreq,
                   nfaults, nwrites>>

\* libev's handling of SIGCHLD: an event is queued for its own signal
\* watcher, whose callback collects the status of the child with waitpid()
waitpid(S, t) == [ev_feed_event(S) EXCEPT !.proc[t].st = "reaped"]

\* libev collects the exit status of t's child, queues an event for its
\* child watcher and calls ev_child_exit
ChildExitEvent(t) ==
    /\ ~crashed
    /\ task[t].cw_on
    /\ proc[t].st = "zombie"
    /\ \E env \in EnvsWithin(MaxFaults - nfaults) :
         Finish(State, LAMBDA S :
            ev_child_exit(ev_feed_event(waitpid(S, t)), t,
                          proc[t].status, env))
    /\ last' = NoRequest
    /\ UNCHANGED <<wrote, nreq, nwrites>>

\* libev collects the exit status of a child no watcher waits for
ReapUnwatched(t) ==
    /\ ~crashed
    /\ ~task[t].cw_on
    /\ proc[t].st = "zombie"
    /\ Finish(State, LAMBDA S : waitpid(S, t))
    /\ last' = NoRequest
    /\ UNCHANGED <<wrote, nreq, nwrites>>

\* libev's handling of an expired timer: one without repeat is stopped and
\* an event is queued for it, with room made first in the list of expired
\* timers and then, the watcher marked pending, in the array of events
timers_reify(S0, t) ==
    With(heap_check(IF S0.task[t].timer_repeat = 0
                    THEN [S0 EXCEPT !.task[t].timer_on = FALSE]
                    ELSE S0), LAMBDA S :
        ev_feed_event([S EXCEPT !.task[t].timer_pending = TRUE]))

\* t's timer expires; when is left open (time is not observed)
TimerExpire(t) ==
    /\ ~crashed
    /\ task[t].timer_on
    /\ Finish(State, LAMBDA S : timers_reify(S, t))
    /\ last' = NoRequest
    /\ UNCHANGED <<wrote, nreq, nwrites>>

\* the loop calls ev_timer_cb for the event queued for t's timer
TimerEvent(t) ==
    /\ ~crashed
    /\ task[t].timer_pending
    /\ Finish([State EXCEPT !.task[t].timer_pending = FALSE],
              LAMBDA S : ev_timer_cb(S, t))
    /\ last' = NoRequest
    /\ UNCHANGED <<wrote, nreq, nwrites>>

\* the descriptor of t's stdout watcher is readable: the pipe holds bytes or
\* is at end of file
StdoutEvent(t) ==
    /\ ~crashed
    /\ ~InvokingPending
    /\ task[t].ioo_on
    /\ pipes[t].o # <<>> \/ AtEof(State, t, "o1")
    /\ Finish(State, LAMBDA S : ev_io_stdout_cb(ev_feed_event(S), t))
    /\ last' = NoRequest
    /\ UNCHANGED <<wrote, nreq, nwrites>>

\* the descriptor of t's stderr watcher is readable: the pipe holds bytes or
\* is at end of file
StderrEvent(t) ==
    /\ ~crashed
    /\ ~InvokingPending
    /\ task[t].ioe_on
    /\ pipes[t].e # <<>> \/ AtEof(State, t, "e1")
    /\ Finish(State, LAMBDA S : ev_io_stderr_cb(ev_feed_event(S), t))
    /\ last' = NoRequest
    /\ UNCHANGED <<wrote, nreq, nwrites>>

Next ==
    \/ RunCommand
    \/ \E t \in Req : ChildExec(t)
    \/ \E t \in Req : ChildArgsFail(t)
    \/ \E t \in Req : ChildExecFail(t)
    \/ \E t \in Req : ChildWrite(t)
    \/ \E t \in Req : ChildExit(t)
    \/ \E t \in Req : ChildExitEvent(t)
    \/ \E t \in Req : ReapUnwatched(t)
    \/ \E t \in Req : TimerExpire(t)
    \/ \E t \in Req : TimerEvent(t)
    \/ \E t \in Req : StdoutEvent(t)
    \/ \E t \in Req : StderrEvent(t)

Spec == Init /\ [][Next]_vars

\* an armed timer expires, and libev runs the callback of an expired timer
\* and of a collected child
Fairness ==
    \A t \in Req : /\ WF_vars(TimerExpire(t))
                    /\ WF_vars(TimerEvent(t))
                    /\ WF_vars(ChildExitEvent(t))

LiveSpec == Init /\ [][Next]_vars /\ Fairness

\* an active timer whose deadline has come or is past
Due(t) == task[t].timer_on /\ task[t].timer_at <= 0

\* the loop's clock, which its timers are measured against, advances one
\* tick while some timer is armed. The loop reads the time once a round,
\* before it looks at its timers, and not while it calls the callbacks of
\* the events it has queued. Time also passes while a timer is due: libev
\* expires it when the loop next looks at its timers, which is after the
\* callbacks under way have returned.
Tick ==
    /\ ~crashed
    /\ ~InvokingPending
    /\ \E t \in Req : task[t].timer_on
    /\ \A t \in Req : task[t].age < MaxAge
    /\ task' = [t \in Req |->
                  IF task[t].st = "running"
                  THEN [task[t] EXCEPT
                          !.age = @ + 1,
                          !.timer_at = IF task[t].timer_on THEN @ - 1 ELSE @]
                  ELSE task[t]]
    /\ last' = NoRequest
    /\ UNCHANGED <<nrunning, task_pending, msg, sent, proc, pipes,
                   corrupt, crashed, wrote, started, queued, fate, overflow, uaf, nreq,
                   nfaults, nwrites>>

\* t's timer expires, at its deadline or later
TimedTimerExpire(t) == Due(t) /\ TimerExpire(t)

\* a request arrives while the clock is followed
TimedRunCommand == nreq < MaxTimedReq /\ RunCommand

\* the same handlers with the clock observed
NextTimed ==
    \/ Tick
    \/ TimedRunCommand
    \/ \E t \in Req : ChildExec(t)
    \/ \E t \in Req : ChildArgsFail(t)
    \/ \E t \in Req : ChildExecFail(t)
    \/ \E t \in Req : ChildWrite(t)
    \/ \E t \in Req : ChildExit(t)
    \/ \E t \in Req : ChildExitEvent(t)
    \/ \E t \in Req : ReapUnwatched(t)
    \/ \E t \in Req : TimedTimerExpire(t)
    \/ \E t \in Req : TimerEvent(t)
    \/ \E t \in Req : StdoutEvent(t)
    \/ \E t \in Req : StderrEvent(t)

TimedSpec == Init /\ [][NextTimed]_vars

----------------------------------------------------------------------------
(* Properties *)

InSeq(seq, x) == \E i \in 1 .. Len(seq) : seq[i] = x

Pos(seq, x) == CHOOSE i \in 1 .. Len(seq) : seq[i] = x

\* the requests handed in whose handling is over: no task holds them
Settled == {r \in Req : r <= nreq /\ task[r].st \notin {"pending", "running"}}

AliveChildren == {t \in Req : proc[t].st \in Alive}

\* C1: the running count never exceeds RTTY_CMD_MAX_RUNNING, whatever
\* admissions, child exits, timeouts, pipe events and spawn failures happened.
RunningBounded == nrunning <= RTTY_CMD_MAX_RUNNING

\* C1 witness: every slot is taken by a task promoted from the queue, after an
\* earlier task ended, and another task still waits.
RunningBoundedWitness ==
    /\ nrunning = RTTY_CMD_MAX_RUNNING
    /\ task_pending # <<>>
    /\ \E t \in Req : InSeq(queued, t) /\ task[t].st = "running"

\* C2: pending tasks start in FIFO order: of two queued tasks, the one queued
\* first has run_task invoked for it before the other.
PendingFifo ==
    \A i, j \in 1 .. Len(queued) :
        (i < j /\ InSeq(started, queued[j]))
            => /\ InSeq(started, queued[i])
               /\ Pos(started, queued[i]) < Pos(started, queued[j])

\* C2 witness: two tasks were queued and both have been started.
PendingFifoWitness ==
    /\ Len(queued) >= 2
    /\ InSeq(started, queued[1])
    /\ InSeq(started, queued[2])

\* C3: every request payload is released exactly once on every exit path:
\* never twice, and once its request is settled, once.
PayloadReleasedOnce ==
    \A r \in Req :
        /\ msg[r].freed <= 1
        /\ r \in Settled => msg[r].freed = 1

\* C4: no queued request starves: with every running task ending by child
\* exit or timeout, every task put in the pending queue is eventually
\* started, without any further request, as long as the parent process lives.
NoStarvation ==
    \A t \in Req : (task[t].st = "pending") ~> (InSeq(started, t) \/ crashed)

\* p is how the text s begins
IsPrefix(p, s) == Len(p) <= Len(s) /\ SubSeq(s, 1, Len(p)) = p

\* how a reply that echoes the token begins
TokenField(token) == "{\"type\":\"cmd\",\"token\":\"" \o token \o "\","

CarriesToken(text, token) == IsPrefix(TokenField(token), text)

\* the exit codes ev_child_exit finds in the status of a child of the model
StatusCodes == ExitCodes \cup {1}

\* the text is a success reply for the token
IsSuccess(text, token) ==
    \E code \in StatusCodes : IsPrefix(OkHead(token, code), text)

HasOkReply(r) ==
    /\ Len(sent[r]) = 1
    /\ IsSuccess(sent[r][1], msg[r].token)

\* the first request started at once and the second was queued behind it
BackToBack ==
    /\ Len(started) >= 1 /\ started[1] = 1
    /\ Len(queued) >= 1 /\ queued[1] = 2

\* at most one reply per request, each with the request's token, and exactly
\* one for a task that ended by child exit
RepliesUnique ==
    \A r \in Req :
        /\ Len(sent[r]) <= 1
        /\ \A i \in 1 .. Len(sent[r]) : CarriesToken(sent[r][i], msg[r].token)
        /\ fate[r] = "exited" => Len(sent[r]) = 1

\* C5: replies are unique and correlated, and of two tasks
\* submitted back-to-back with one running slot, each ends with a success
\* reply carrying its own token.
RepliesUniqueAndSuccessful ==
    /\ RepliesUnique
    /\ (RTTY_CMD_MAX_RUNNING = 1 /\ BackToBack)
            => \A r \in {1, 2} : task[r].st = "freed" => HasOkReply(r)

\* C6: a success reply carries everything the child wrote to stdout and to
\* stderr, in order, base64 encoded.
ReplyCarriesAllOutput ==
    \A r \in Req : \A i \in 1 .. Len(sent[r]) :
        IsSuccess(sent[r][i], msg[r].token)
            => sent[r][i] = OkDoc(msg[r].token, WEXITSTATUS(proc[r].status),
                                  wrote[r].o, wrote[r].e)

\* C7: the child processes that are alive never outnumber
\* RTTY_CMD_MAX_RUNNING.
AliveChildrenBounded == Cardinality(AliveChildren) <= RTTY_CMD_MAX_RUNNING

\* C8: a running task owns a child process, and a task torn down after it ran
\* (by child exit or by timeout) has had its child reaped.
ReapedBeforeFree ==
    \A t \in Req :
        /\ task[t].st = "running" => proc[t].st # "none"
        /\ fate[t] \in {"exited", "timedout"} => proc[t].st = "reaped"

\* C9: a child whose execv() failed runs no parent-side logic: it installs no
\* watchers, leaves its nrunning as inherited and never returns into the
\* event loop.
ChildNeverRunsParentLogic ==
    \A t \in Req :
        /\ ~proc[t].watchers
        /\ ~proc[t].inloop
        /\ proc[t].nrunning = proc[t].nrunning0

AuthFails(a) ==
    a.username = NULL \/ a.username = "" \/ ~login_test(a.username, a.password)

\* a step that sends exactly one error reply for r, releases r's payload and
\* touches no task, no process, the running count and the queue
RejectedStep(r, err) ==
    /\ sent' = [sent EXCEPT ![r] = <<ErrDoc(msg'[r].token, err)>>]
    /\ msg'[r].freed = 1
    /\ task' = task
    /\ proc' = proc
    /\ nrunning' = nrunning
    /\ task_pending' = task_pending

\* C10: a run_command that fails authentication sends exactly one PERMIT
\* error reply, one whose command does not resolve sends exactly one
\* NOT_FOUND error reply; either releases the payload, creates no task and
\* leaves nrunning and the pending queue as they were.
RejectionLeavesSchedulerAlone ==
    [][ last'.op = "run_command" =>
          LET r == last'.req
              a == last'.attrs
          IN  /\ AuthFails(a) => RejectedStep(r, "PERMIT")
              /\ (~AuthFails(a) /\ cmd_lookup(a.cmd) = NoPath)
                    => RejectedStep(r, "NOT_FOUND")
      ]_vars

\* the step tears task t down through ev_child_exit
ExitedNow(t) == fate[t] # "exited" /\ fate'[t] = "exited"

\* the step runs run_task for h and its pipe2() or fork() fails
FailedStart(h) == fate[h] # "failed" /\ fate'[h] = "failed"

\* C11: a pipe2() or fork() failure inside run_task sends exactly one SYSERR
\* error reply with the task's token and tears down that task only: nrunning
\* is what it was before the failed start (the slot the exiting task gave
\* back in the same callback apart), the queue loses at most the failed task,
\* and every other task, its replies, its child and its pipes are untouched.
SpawnFailureIsolated ==
    [][ \A h \in Req : FailedStart(h) =>
          /\ sent'[h] = <<ErrDoc(msg'[h].token, "SYSERR")>>
          /\ task'[h].st = "freed"
          /\ nrunning' = nrunning - Cardinality({t \in Req : ExitedNow(t)})
          /\ task_pending' = SelectSeq(task_pending, LAMBDA x : x # h)
          /\ \A q \in Req \ {h} :
                \/ ExitedNow(q)
                \/ /\ task'[q] = task[q]
                   /\ sent'[q] = sent[q]
                   /\ proc'[q] = proc[q]
                   /\ pipes'[q] = pipes[q]
      ]_vars

\* what every child-exit with a non-empty queue does: the head leaves the
\* queue and run_task is invoked for it, in the same callback
PromotesHead(h) ==
    /\ task_pending' = Tail(task_pending)
    /\ started' = Append(started, h)

\* C12: on every child-exit with a non-empty pending queue the head
\* is removed and started in the same callback, and nrunning after the
\* callback equals nrunning before it, also when the promoted start fails.
PromotionKeepsCount ==
    [][ \A t \in Req : (ExitedNow(t) /\ task_pending # <<>>) =>
          /\ PromotesHead(Head(task_pending))
          /\ nrunning' = nrunning
      ]_vars

\* none of the four watchers is active and no event is queued for the timer
WatchersOff(T) ==
    ~T.ioo_on /\ ~T.ioe_on /\ ~T.cw_on /\ ~T.timer_on /\ ~T.timer_pending

\* C13: exited and timed-out exclude each other: once ev_child_exit or
\* ev_timer_cb has run for a task its outcome never changes, the freed task
\* has none of its four watchers active, and no later step touches it.
TerminalOutcomesExclusive ==
    [][ \A t \in Req :
          /\ fate[t] \in {"exited", "timedout"} => fate'[t] = fate[t]
          /\ task'[t].st = "freed" => WatchersOff(task'[t])
          /\ task[t].st = "freed" => task'[t] = task[t]
      ]_vars

\* C13 witness: one task ended by child exit and another by timeout, both are
\* freed with their four watchers stopped, and the child of the timed-out
\* task ended afterwards without any handler running for it.
TerminalOutcomesWitness ==
    \E t, u \in Req :
        /\ fate[t] = "exited" /\ task[t].st = "freed"
        /\ fate[u] = "timedout" /\ task[u].st = "freed"
        /\ WatchersOff(task[t]) /\ WatchersOff(task[u])
        /\ proc[u].st = "reaped"

\* the step tears task t down through ev_timer_cb
TimedOutNow(t) == fate[t] # "timedout" /\ fate'[t] = "timedout"

\* C14: the timeout tears the task down and sends nothing, then or later, for
\* its request, and the timer callback neither takes a task off the pending
\* queue nor starts one.
TimeoutSilent ==
    [][ \A t \in Req :
          /\ TimedOutNow(t) =>
                /\ task'[t].st = "freed"
                /\ sent' = sent
                /\ task_pending' = task_pending
                /\ started' = started
          /\ fate[t] = "timedout" => sent'[t] = <<>>
      ]_vars

\* C14 witness: a task timed out while another waited in the queue; the slot
\* is free, the queue still holds the waiting task and the caller of the
\* timed-out task has no reply.
TimeoutSilentWitness ==
    \E t \in Req :
        /\ fate[t] = "timedout"
        /\ sent[t] = <<>>
        /\ task_pending # <<>>
        /\ nrunning < RTTY_CMD_MAX_RUNNING

\* C15: once a readable event has met end of file on a task's stdout or
\* stderr pipe, that watcher is stopped and that descriptor is closed, while
\* the task keeps running until its child-exit or timeout event.
EofStopsWatcher ==
    \A t \in Req :
        /\ pipes[t].oeof =>
              /\ ~task[t].ioo_on
              /\ "o0" \notin pipes[t].open
              /\ task[t].st = "running"
        /\ pipes[t].eeof =>
              /\ ~task[t].ioe_on
              /\ "e0" \notin pipes[t].open
              /\ task[t].st = "running"

\* C16: when a task has been torn down, every pipe descriptor run_task opened
\* for it is closed in the parent, whatever path led to the teardown.
PipesClosedAtTeardown ==
    \A t \in Req : task[t].st = "freed" => pipes[t].open = {}

\* the timer of a running task is the one run_task armed: without repeat
\* and, until it expires, active and due when the task has run for
\* RTTY_CMD_EXEC_TIMEOUT; once expired, which is not before that, its event
\* is queued; and a step that reads output of the task leaves the timer as
\* it is. (A parent that died in the middle of a teardown has no timers any
\* more.)
DeadlineFixedAtStart(t) ==
    /\ task'[t].st = "running" =>
          /\ task'[t].timer_repeat = 0
          /\ task'[t].timer_on # task'[t].timer_pending
          /\ task'[t].timer_on
                => task'[t].timer_at + task'[t].age = RTTY_CMD_EXEC_TIMEOUT
          /\ task'[t].timer_pending
                => task'[t].age >= RTTY_CMD_EXEC_TIMEOUT
    /\ (task[t].st = "running" /\ task'[t].st = "running"
          /\ (task'[t].ob # task[t].ob \/ task'[t].eb # task[t].eb)) =>
          /\ task'[t].timer_on
          /\ task'[t].timer_at = task[t].timer_at
          /\ task'[t].timer_repeat = task[t].timer_repeat

\* C17: the timer is armed by run_task with RTTY_CMD_EXEC_TIMEOUT and no
\* repeat and nothing rearms it: a running task's deadline is its start time
\* plus the constant, readable events leave the timer as it is, and a task
\* that times out does so when it has run for the constant or longer, never
\* earlier.
FixedDeadline ==
    [][ ~crashed' => \A t \in Req :
          /\ DeadlineFixedAtStart(t)
          /\ TimedOutNow(t) => task[t].age >= RTTY_CMD_EXEC_TIMEOUT
      ]_vars

\* C17 as stated: the same, with a task that times out torn down when it has
\* run for exactly the constant.
TornDownAtDeadline ==
    [][ ~crashed' => \A t \in Req :
          /\ DeadlineFixedAtStart(t)
          /\ TimedOutNow(t) => task[t].age = RTTY_CMD_EXEC_TIMEOUT
      ]_vars

\* C17 witness: a task whose output was read after time had passed since its
\* start is past its deadline with its timer still armed for start time plus
\* the constant, and an earlier task has timed out.
FixedDeadlineWitness ==
    \E t, u \in Req :
        /\ task[t].st = "running"
        /\ task[t].ob # <<>>
        /\ task[t].age > RTTY_CMD_EXEC_TIMEOUT
        /\ task[t].timer_on
        /\ task[t].timer_at = RTTY_CMD_EXEC_TIMEOUT - task[t].age
        /\ fate[u] = "timedout"

\* C18: no queue bypass: while a task waits in the pending queue, no task
\* admitted after it has been started.
NoQueueBypass ==
    \A a, b \in Req :
        (a < b /\ task[a].st = "pending") => ~InSeq(started, b)

\* the tasks run_task started successfully and task_free has not torn down
RunningTasks == {t \in Req : task[t].st = "running"}

\* C19: between handlers nrunning is the number of tasks started successfully
\* and not yet torn down, and it is never negative; the same in the state in
\* which a parent that died inside a handler stopped.
CountMatchesRunning ==
    /\ nrunning = Cardinality(RunningTasks)
    /\ nrunning >= 0

\* C19 witness: one task timed out, the start of another failed, and a third
\* one runs: the count is one.
CountMatchesWitness ==
    \E t, u, v \in Req :
        /\ fate[t] = "timedout"
        /\ fate[u] = "failed"
        /\ task[v].st = "running"
        /\ nrunning = 1

\* C20: no handler reads a field of a task after task_free released it.
NoUseAfterFree == uaf = {}

====
